---- MODULE Spec2Model ----
(***************************************************************************)
(* Model of ESXi_Control.py: an ESXiHost that drives an ESXi host through  *)
(* one SSH session, and the ESXiVm objects it enumerates.                  *)
(*                                                                         *)
(* Python strings are TLA+ strings; the string methods the code uses       *)
(* (in, split, strip, lower, capitalize, int, format, re.search) are       *)
(* operators computed character by character.  Python values that can be   *)
(* of several types are tagged records: None, Str(s), IntV(n), List(l).    *)
(*                                                                         *)
(* One action is one call of a public method.  The answers the remote host *)
(* gives to the successive commands of that call are the call's input      *)
(* (variable remote); the commands the call submitted are in log.          *)
(***************************************************************************)
EXTENDS Integers, Sequences, FiniteSets, TLC

VARIABLES
    transport,  \* ssh_session.get_transport(): "none", "alive" or "dead"
    vm,         \* the ESXiVm the caller kept from a listing, None before one
    call,       \* the method called last, its argument, the transport at entry
    remote,     \* the remote's answers to the commands of this call, in order
    outcome,    \* how the call ended: return value or exception
    log         \* the command lines submitted by this call, in order

vars == <<transport, vm, call, remote, outcome, log>>

(***************************************************************************)
(* Bounds.                                                                 *)
(***************************************************************************)
MaxLines == 2   \* stdout lines of a maintenance-mode or power-state answer
MaxRows == 2    \* stdout lines of a listing answer

(***************************************************************************)
(* Python values.                                                          *)
(***************************************************************************)
None == [t |-> "None"]
Str(s) == [t |-> "str", s |-> s]
IntV(n) == [t |-> "int", n |-> n]
List(l) == [t |-> "list", l |-> l]
Enum(name) == [t |-> "enum", name |-> name]

(***************************************************************************)
(* Python string methods.                                                  *)
(***************************************************************************)
UpperChars == "ABCDEFGHIJKLMNOPQRSTUVWXYZ"
LowerChars == "abcdefghijklmnopqrstuvwxyz"
Digits == "0123456789"

CharAt(s, i) == SubSeq(s, i, i)

IndexIn(c, alphabet) ==
    IF \E i \in 1..Len(alphabet) : CharAt(alphabet, i) = c
    THEN CHOOSE i \in 1..Len(alphabet) : CharAt(alphabet, i) = c
    ELSE 0

LowerChar(c) ==
    IF IndexIn(c, UpperChars) > 0 THEN CharAt(LowerChars, IndexIn(c, UpperChars)) ELSE c

UpperChar(c) ==
    IF IndexIn(c, LowerChars) > 0 THEN CharAt(UpperChars, IndexIn(c, LowerChars)) ELSE c

RECURSIVE Lower(_)
Lower(s) ==
    IF s = "" THEN "" ELSE LowerChar(CharAt(s, 1)) \o Lower(SubSeq(s, 2, Len(s)))

Capitalize(s) ==
    IF s = "" THEN "" ELSE UpperChar(CharAt(s, 1)) \o Lower(SubSeq(s, 2, Len(s)))

IsSpace(c) == c \in {" ", "\n", "\t", "\r"}

RECURSIVE LStrip(_)
LStrip(s) ==
    IF s # "" /\ IsSpace(CharAt(s, 1)) THEN LStrip(SubSeq(s, 2, Len(s))) ELSE s

RECURSIVE RStrip(_)
RStrip(s) ==
    IF s # "" /\ IsSpace(CharAt(s, Len(s))) THEN RStrip(SubSeq(s, 1, Len(s) - 1)) ELSE s

Strip(s) == RStrip(LStrip(s))

\* sub in s
Contains(s, sub) ==
    \E i \in 1..(Len(s) - Len(sub) + 1) : SubSeq(s, i, i + Len(sub) - 1) = sub

\* s.find(sub) + 1, or 0
Find(s, sub) ==
    IF Contains(s, sub)
    THEN CHOOSE i \in 1..(Len(s) - Len(sub) + 1) :
            /\ SubSeq(s, i, i + Len(sub) - 1) = sub
            /\ \A j \in 1..(i - 1) : SubSeq(s, j, j + Len(sub) - 1) # sub
    ELSE 0

\* s.split(sep) for a non-empty separator
RECURSIVE Split(_, _)
Split(s, sep) ==
    IF Find(s, sep) = 0 THEN <<s>>
    ELSE <<SubSeq(s, 1, Find(s, sep) - 1)>>
            \o Split(SubSeq(s, Find(s, sep) + Len(sep), Len(s)), sep)

IsDigits(s) == s # "" /\ \A i \in 1..Len(s) : IndexIn(CharAt(s, i), Digits) > 0

RECURSIVE DigitsValue(_)
DigitsValue(s) ==
    IF s = "" THEN 0
    ELSE 10 * DigitsValue(SubSeq(s, 1, Len(s) - 1)) + (IndexIn(CharAt(s, Len(s)), Digits) - 1)

\* int(s): defined on optional whitespace around decimal digits
IntParses(s) == IsDigits(Strip(s))
Int_(s) == DigitsValue(Strip(s))

RECURSIVE IntToStr(_)
IntToStr(n) ==
    IF n < 10 THEN CharAt(Digits, n + 1)
    ELSE IntToStr(n \div 10) \o CharAt(Digits, (n % 10) + 1)

ToStr(v) ==
    IF v.t = "str" THEN v.s
    ELSE IF v.t = "int" THEN IntToStr(v.n)
    ELSE "None"

\* tpl.format(v) for a template with one "{0}"
Format(tpl, v) ==
    SubSeq(tpl, 1, Find(tpl, "{0}") - 1) \o ToStr(v)
        \o SubSeq(tpl, Find(tpl, "{0}") + 3, Len(tpl))

IsAlpha(c) == IndexIn(c, UpperChars) > 0 \/ IndexIn(c, LowerChars) > 0

RECURSIVE AlphaPrefix(_)
AlphaPrefix(s) ==
    IF s # "" /\ IsAlpha(CharAt(s, 1))
    THEN CharAt(s, 1) \o AlphaPrefix(SubSeq(s, 2, Len(s)))
    ELSE ""

\* re.search("(?:vim\.fault)[.]([a-zA-Z]*)", s).group(1), for s with a match
VimFaultGroup(s) ==
    AlphaPrefix(SubSeq(s, Find(s, "vim.fault.") + Len("vim.fault."), Len(s)))

VimFaultMatches(s) == Contains(s, "vim.fault.")

(***************************************************************************)
(* ESXIErrors and ESXiError.                                               *)
(***************************************************************************)
ESXIErrors ==
    [ SSHNotConnected |->
        [code |-> -1000, message |-> "SSH not connected to host."],
      Host_MaintenanceModeEnter_Failed |->
        [code |-> -1010, message |-> "Unable to enable maintenance mode on host."],
      Host_MaintenanceModeExit_Failed |->
        [code |-> -1011, message |-> "Unable to disable maintenance mode on host."],
      Host_MaintenanceModeQuery_Failed |->
        [code |-> -1012, message |-> "Unable to get maintenance mode state."],
      Host_Shutdown_InvalidCommand |->
        [code |-> -1020, message |->
            "Command must be of type string and must be either 'poweroff' or 'reboot'."],
      Host_Shutdown_Failed |->
        [code |-> -1021, message |-> "Unable to shutdown host."],
      Host_VMQuery_Failed |->
        [code |-> -1030, message |-> "Unable to get list of vms from host."],
      VM_PowerStateQuery_Failed |->
        [code |-> -1040, message |-> "Unable to query the power state of the specified vm."],
      VM_Hibernate_Failed |->
        [code |-> -1050, message |-> "Unable to hibernate the specified vm."],
      VM_PowerOn_Failed |->
        [code |-> -1060, message |-> "Unable to power on the specified vm."],
      VM_PowerOff_Failed |->
        [code |-> -1070, message |-> "Unable to power off the specified vm."],
      VM_Reboot_Failed |->
        [code |-> -1080, message |-> "Unable to reboot the specified vm."],
      VM_Reset_Failed |->
        [code |-> -1090, message |-> "Unable to reset the specified vm."],
      VM_Shutdown_Failed |->
        [code |-> -1100, message |-> "Unable to shutdown the specified vm."],
      VM_Suspend_Failed |->
        [code |-> -1110, message |-> "Unable to suspend the specified vm."] ]

\* ESXiError(*args): an error enum with an optional reason, or code, message, reason
ESXiError(args) ==
    IF Len(args) > 0 /\ args[1].t = "enum"
    THEN [ kind |-> "ESXiError",
           code |-> ESXIErrors[args[1].name].code,
           message |-> ESXIErrors[args[1].name].message,
           reason |-> IF Len(args) > 1 /\ args[2] # None THEN args[2] ELSE None ]
    ELSE [ kind |-> "ESXiError",
           code |-> args[1].n,
           message |-> args[2].s,
           reason |-> IF Len(args) > 2 THEN args[3] ELSE None ]

(***************************************************************************)
(* The result of running a method: how it ended and the command lines it   *)
(* submitted.  code is 0, message "" and reason None unless kind is        *)
(* "ESXiError"; value is None unless kind is "return".                     *)
(***************************************************************************)
Return(v, lg) ==
    [kind |-> "return", value |-> v, code |-> 0, message |-> "", reason |-> None, log |-> lg]

Raise(e, lg) ==
    [kind |-> e.kind, value |-> None, code |-> e.code, message |-> e.message,
     reason |-> e.reason, log |-> lg]

\* an exception that is not an ESXiError: SSHException, AttributeError, ...
PyError(kind) == [kind |-> kind, code |-> 0, message |-> "", reason |-> None]

\* the result r of a nested call, with the commands lg submitted before it
After(lg, r) == [r EXCEPT !.log = lg \o r.log]

\* the answers left after the commands of lg
Rest(ans, lg) == SubSeq(ans, Len(lg) + 1, Len(ans))

(***************************************************************************)
(* ESXiHost: the session.                                                  *)
(***************************************************************************)
\* connected() without the is_alive() test
connected_any_transport(tr) == tr # "none"

\* transp is not None and transp.is_alive()
connected(tr) == tr = "alive"

(***************************************************************************)
(* ESXiHost.get_maintenance_mode                                           *)
(***************************************************************************)
\* the scan without the strip() of the token
RECURSIVE ScanMaintenanceLines_unstripped(_)
ScanMaintenanceLines_unstripped(result) ==
    IF result = <<>> THEN None
    ELSE IF Contains(Head(result), "Enabled") \/ Contains(Head(result), "Disabled")
         THEN Str(Split(Head(result), " ")[1])
         ELSE ScanMaintenanceLines_unstripped(Tail(result))

RECURSIVE ScanMaintenanceLines(_)
ScanMaintenanceLines(result) ==
    IF result = <<>> THEN None
    ELSE IF Contains(Head(result), "Enabled") \/ Contains(Head(result), "Disabled")
         THEN Str(Strip(Split(Head(result), " ")[1]))
         ELSE ScanMaintenanceLines(Tail(result))

get_maintenance_mode(tr, ans) ==
    IF connected(tr)
    THEN LET cmd == "esxcli system maintenanceMode get" IN
         IF ans[1].exc THEN Raise(PyError("SSHException"), <<cmd>>)
         ELSE IF ans[1].exit = 0
              THEN Return(ScanMaintenanceLines(ans[1].out), <<cmd>>)
              ELSE Raise(ESXiError(<<Enum("Host_MaintenanceModeQuery_Failed")>>), <<cmd>>)
    ELSE Raise(ESXiError(<<Enum("SSHNotConnected")>>), <<>>)

(***************************************************************************)
(* ESXiHost.enter_maintenance_mode, exit_maintenance_mode                  *)
(***************************************************************************)
\* enter_maintenance_mode without the test of the queried state
enter_maintenance_mode_unconditional(tr, ans) ==
    IF connected(tr)
    THEN LET q == get_maintenance_mode(tr, ans)
             cmd == "vim-cmd hostsvc/maintenance_mode_enter"
             a == Rest(ans, q.log)[1]
         IN IF q.kind # "return" THEN q
            ELSE IF a.exc THEN Raise(PyError("SSHException"), q.log \o <<cmd>>)
            ELSE IF a.exit # 0
                 THEN Raise(ESXiError(<<Enum("Host_MaintenanceModeEnter_Failed")>>),
                            q.log \o <<cmd>>)
                 ELSE Return(None, q.log \o <<cmd>>)
    ELSE Raise(ESXiError(<<Enum("SSHNotConnected")>>), <<>>)

enter_maintenance_mode(tr, ans) ==
    IF connected(tr)
    THEN LET q == get_maintenance_mode(tr, ans)
             cmd == "vim-cmd hostsvc/maintenance_mode_enter"
             a == Rest(ans, q.log)[1]
         IN IF q.kind # "return" THEN q
            ELSE IF q.value = Str("Enabled") THEN Return(None, q.log)
            ELSE IF a.exc THEN Raise(PyError("SSHException"), q.log \o <<cmd>>)
            ELSE IF a.exit # 0
                 THEN Raise(ESXiError(<<Enum("Host_MaintenanceModeEnter_Failed")>>),
                            q.log \o <<cmd>>)
                 ELSE Return(None, q.log \o <<cmd>>)
    ELSE Raise(ESXiError(<<Enum("SSHNotConnected")>>), <<>>)

exit_maintenance_mode(tr, ans) ==
    IF connected(tr)
    THEN LET q == get_maintenance_mode(tr, ans)
             cmd == "vim-cmd hostsvc/maintenance_mode_exit"
             a == Rest(ans, q.log)[1]
         IN IF q.kind # "return" THEN q
            ELSE IF q.value = Str("Disabled") THEN Return(None, q.log)
            ELSE IF a.exc THEN Raise(PyError("SSHException"), q.log \o <<cmd>>)
            ELSE IF a.exit # 0
                 THEN Raise(ESXiError(<<Enum("Host_MaintenanceModeExit_Failed")>>),
                            q.log \o <<cmd>>)
                 ELSE Return(None, q.log \o <<cmd>>)
    ELSE Raise(ESXiError(<<Enum("SSHNotConnected")>>), <<>>)

(***************************************************************************)
(* ESXiHost.shutdown                                                       *)
(***************************************************************************)
ValidShutdownCommand(command) ==
    command.t = "str" /\ Lower(command.s) \in {"poweroff", "reboot"}

\* shutdown validating the command before it checks the session
shutdown_validate_first(tr, ans, command) ==
    IF ~ValidShutdownCommand(command)
    THEN Raise(ESXiError(<<Enum("Host_Shutdown_InvalidCommand")>>), <<>>)
    ELSE IF connected(tr)
         THEN LET cmd == Format("esxcli system shutdown {0}", command) IN
              IF ans[1].exc THEN Raise(PyError("SSHException"), <<cmd>>)
              ELSE IF ans[1].exit # 0
                   THEN Raise(ESXiError(<<Enum("Host_Shutdown_Failed")>>), <<cmd>>)
                   ELSE Return(None, <<cmd>>)
         ELSE Raise(ESXiError(<<Enum("SSHNotConnected")>>), <<>>)

shutdown(tr, ans, command) ==
    IF connected(tr)
    THEN IF ~ValidShutdownCommand(command)
         THEN Raise(ESXiError(<<Enum("Host_Shutdown_InvalidCommand")>>), <<>>)
         ELSE LET cmd == Format("esxcli system shutdown {0}", command) IN
              IF ans[1].exc THEN Raise(PyError("SSHException"), <<cmd>>)
              ELSE IF ans[1].exit # 0
                   THEN Raise(ESXiError(<<Enum("Host_Shutdown_Failed")>>), <<cmd>>)
                   ELSE Return(None, <<cmd>>)
    ELSE Raise(ESXiError(<<Enum("SSHNotConnected")>>), <<>>)

(***************************************************************************)
(* ESXiVm                                                                  *)
(***************************************************************************)
\* ESXiVm.__init__(host, vm_data): the object, or the exception it raises
ESXiVm(vm_data) ==
    IF ~IntParses(vm_data[1]) THEN [ok |-> FALSE, error |-> "ValueError"]
    ELSE IF Len(vm_data) < 6 THEN [ok |-> FALSE, error |-> "IndexError"]
    ELSE [ ok |-> TRUE,
           vm |-> [ t |-> "ESXiVm",
                    id |-> Int_(vm_data[1]),
                    name |-> vm_data[2],
                    datastore |-> vm_data[3],
                    file |-> vm_data[4],
                    guest_os |-> vm_data[5],
                    version |-> vm_data[6] ] ]

\* a function object, such as the one a decorator receives
Function(name) == [t |-> "function", name |-> name]

\* whether obj.attr exists
HasAttr(obj, attr) ==
    /\ obj.t = "ESXiVm"
    /\ attr \in {"id", "name", "datastore", "file", "guest_os", "version",
                 "host", "ssh_session"}

RECURSIVE ssh_check_wrapper(_, _, _, _)

\* the body of power_getstate
RECURSIVE ScanPowerLines(_)
ScanPowerLines(result) ==
    IF result = <<>> THEN None
    ELSE IF Contains(Head(result), "Powered ")
         THEN Str(Strip(Split(Head(result), " ")[2]))
         ELSE IF Contains(Head(result), "Suspended")
              THEN Str("suspended")
              ELSE ScanPowerLines(Tail(result))

power_getstate(self, tr, ans) ==
    LET cmd == Format("vim-cmd vmsvc/power.getstate {0}", IntV(self.id)) IN
    IF ans[1].exc THEN Raise(PyError("SSHException"), <<cmd>>)
    ELSE IF ans[1].exit # 0
         THEN Raise(ESXiError(<<Enum("VM_PowerStateQuery_Failed")>>), <<cmd>>)
         ELSE Return(ScanPowerLines(ans[1].out), <<cmd>>)

StateReason(vim_fault, state) ==
    "(" \o vim_fault \o ") The attempted operation cannot be performed "
        \o "in the current state. (" \o Capitalize(state) \o ")"

\* the part of a power method after its command exited nonzero; lg holds the
\* commands submitted so far, ans the answers left, error_args the leading
\* arguments of the ESXiError raised when stderr carries a fault, error the
\* enum raised when it does not
power_diagnose(self, tr, ans, lg, vim_status, error_args, error) ==
    IF Len(vim_status) = 0 THEN Raise(PyError("IndexError"), lg)
    ELSE IF Contains(vim_status[1], "vim.fault")
         THEN IF ~VimFaultMatches(vim_status[1])
              THEN Raise(PyError("AttributeError"), lg)
              ELSE LET q == ssh_check_wrapper("power_getstate", self, tr, ans) IN
                   IF q.kind # "return" THEN After(lg, q)
                   ELSE IF q.value = None
                        THEN Raise(PyError("AttributeError"), lg \o q.log)
                        ELSE Raise(ESXiError(error_args \o
                                     <<Str(StateReason(VimFaultGroup(vim_status[1]),
                                                       q.value.s))>>),
                                   lg \o q.log)
         ELSE Raise(ESXiError(<<Enum(error)>>), lg)

\* the part of a power method from its command on
power_command(self, tr, ans, lg, tpl, error_args, error) ==
    LET cmd == Format(tpl, IntV(self.id)) IN
    IF ans[1].exc THEN Raise(PyError("SSHException"), lg \o <<cmd>>)
    ELSE IF ans[1].exit # 0
         THEN power_diagnose(self, tr, Tail(ans), lg \o <<cmd>>, ans[1].err,
                             error_args, error)
         ELSE Return(None, lg \o <<cmd>>)

\* a power method that first verifies the vm is not already in state target
power_checked(self, tr, ans, target, tpl, error_args, error) ==
    LET q == ssh_check_wrapper("power_getstate", self, tr, ans) IN
    IF q.kind # "return" THEN q
    ELSE IF q.value = Str(target) THEN Return(None, q.log)
    ELSE power_command(self, tr, Rest(ans, q.log), q.log, tpl, error_args, error)

power_hibernate(self, tr, ans) ==
    power_checked(self, tr, ans, "suspended", "vim-cmd vmsvc/power.hibernate {0}",
                  <<IntV(1000), Str("Unable to hibernate the specified vm.")>>,
                  "VM_Hibernate_Failed")

power_on(self, tr, ans) ==
    power_checked(self, tr, ans, "on", "vim-cmd vmsvc/power.on {0}",
                  <<Enum("VM_PowerOn_Failed")>>, "VM_PowerOn_Failed")

power_off(self, tr, ans) ==
    power_checked(self, tr, ans, "off", "vim-cmd vmsvc/power.off {0}",
                  <<Enum("VM_PowerOff_Failed")>>, "VM_PowerOff_Failed")

power_reboot(self, tr, ans) ==
    power_command(self, tr, ans, <<>>, "vim-cmd vmsvc/power.reboot {0}",
                  <<Enum("VM_Reboot_Failed")>>, "VM_Reboot_Failed")

power_reset(self, tr, ans) ==
    power_command(self, tr, ans, <<>>, "vim-cmd vmsvc/power.reset {0}",
                  <<Enum("VM_Reset_Failed")>>, "VM_Reset_Failed")

power_shutdown(self, tr, ans) ==
    power_checked(self, tr, ans, "off", "vim-cmd vmsvc/power.shutdown {0}",
                  <<Enum("VM_Shutdown_Failed")>>, "VM_Shutdown_Failed")

power_suspend(self, tr, ans) ==
    power_checked(self, tr, ans, "suspended", "vim-cmd vmsvc/power.suspend {0}",
                  <<Enum("VM_Suspend_Failed")>>, "VM_Suspend_Failed")

power_suspendresume(self, tr, ans) == Return(None, <<>>)

\* the function a decorated name was bound to before decoration
WrappedFunction(name, self, tr, ans) ==
    CASE name = "power_getstate" -> power_getstate(self, tr, ans)
      [] name = "power_hibernate" -> power_hibernate(self, tr, ans)
      [] name = "power_on" -> power_on(self, tr, ans)
      [] name = "power_off" -> power_off(self, tr, ans)
      [] name = "power_reboot" -> power_reboot(self, tr, ans)
      [] name = "power_reset" -> power_reset(self, tr, ans)
      [] name = "power_shutdown" -> power_shutdown(self, tr, ans)
      [] name = "power_suspend" -> power_suspend(self, tr, ans)
      [] name = "power_suspendresume" -> power_suspendresume(self, tr, ans)

\* ssh_check(*args): args of the decorator call, args[0] the decorated function
ssh_check_args(name) == <<Function(name)>>

\* ssh_check_wrapper(*args_list): what every decorated method is bound to.
\* It reads args[0].host, args being the tuple ssh_check was called with.
ssh_check_wrapper(name, self, tr, ans) ==
    IF ~HasAttr(ssh_check_args(name)[1], "host")
    THEN Raise(PyError("AttributeError"), <<>>)
    ELSE IF ~connected(tr)
         THEN Raise(ESXiError(<<Enum("SSHNotConnected")>>), <<>>)
         ELSE WrappedFunction(name, self, tr, ans)

(***************************************************************************)
(* ESXiHost.get_all_vms                                                    *)
(***************************************************************************)
GetAllVmsCommand ==
    "vim-cmd vmsvc/getallvms | awk '$3 ~ /^\\[/ {print $1\":\"$2\":\"$3\":\"$4\":\"$5\":\"$6}'"

\* the loop over vm_list: the list vms grown from acc, or the exception of a
\* constructor
\* the loop comparing the first field to "vmid" without lower()
RECURSIVE CollectVms_case_sensitive(_, _)
CollectVms_case_sensitive(vm_list, acc) ==
    IF vm_list = <<>> THEN [ok |-> TRUE, vms |-> acc]
    ELSE LET vm_data == Split(Head(vm_list), ":") IN
         IF vm_data[1] # "vmid"
         THEN IF ESXiVm(vm_data).ok
              THEN CollectVms_case_sensitive(Tail(vm_list), Append(acc, ESXiVm(vm_data).vm))
              ELSE [ok |-> FALSE, error |-> ESXiVm(vm_data).error]
         ELSE CollectVms_case_sensitive(Tail(vm_list), acc)

RECURSIVE CollectVms(_, _)
CollectVms(vm_list, acc) ==
    IF vm_list = <<>> THEN [ok |-> TRUE, vms |-> acc]
    ELSE LET vm_data == Split(Head(vm_list), ":") IN
         IF Lower(vm_data[1]) # "vmid"
         THEN IF ESXiVm(vm_data).ok
              THEN CollectVms(Tail(vm_list), Append(acc, ESXiVm(vm_data).vm))
              ELSE [ok |-> FALSE, error |-> ESXiVm(vm_data).error]
         ELSE CollectVms(Tail(vm_list), acc)

get_all_vms(tr, ans) ==
    IF connected(tr)
    THEN LET cmd == GetAllVmsCommand
             vm_list == ans[1].out
         IN IF ans[1].exc THEN Raise(PyError("SSHException"), <<cmd>>)
            ELSE IF ans[1].exit # 0
                 THEN Raise(ESXiError(<<Enum("Host_VMQuery_Failed")>>), <<cmd>>)
                 ELSE IF Len(vm_list) > 0
                      THEN IF CollectVms(vm_list, <<>>).ok
                           THEN Return(List(CollectVms(vm_list, <<>>).vms), <<cmd>>)
                           ELSE Raise(PyError(CollectVms(vm_list, <<>>).error), <<cmd>>)
                      ELSE Return(None, <<cmd>>)
    ELSE Raise(ESXiError(<<Enum("SSHNotConnected")>>), <<>>)

(***************************************************************************)
(* ESXiHost.get_running_vms                                                *)
(***************************************************************************)
\* the loop over all_vms: lg holds the commands submitted so far, ans the
\* answers left, acc the list vms
RECURSIVE CollectRunning(_, _, _, _, _)
CollectRunning(all_vms, tr, ans, lg, acc) ==
    IF all_vms = <<>> THEN Return(List(acc), lg)
    ELSE LET q == ssh_check_wrapper("power_getstate", Head(all_vms), tr, ans) IN
         IF q.kind # "return" THEN After(lg, q)
         ELSE CollectRunning(Tail(all_vms), tr, Rest(ans, q.log), lg \o q.log,
                             IF q.value = Str("on")
                             THEN Append(acc, Head(all_vms)) ELSE acc)

get_running_vms(tr, ans) ==
    IF connected(tr)
    THEN LET all_vms == get_all_vms(tr, ans) IN
         IF all_vms.kind # "return" THEN all_vms
         ELSE IF all_vms.value # None
              THEN CollectRunning(all_vms.value.l, tr, Rest(ans, all_vms.log),
                                  all_vms.log, <<>>)
              ELSE Return(None, all_vms.log)
    ELSE Raise(ESXiError(<<Enum("SSHNotConnected")>>), <<>>)

(***************************************************************************)
(* ESXiHost.find_vm_by_name, find_vm_by_id                                 *)
(***************************************************************************)
RECURSIVE FirstByName(_, _)
FirstByName(vms, vm_name) ==
    IF vms = <<>> THEN None
    ELSE IF Lower(Head(vms).name) = Lower(vm_name) THEN Head(vms)
         ELSE FirstByName(Tail(vms), vm_name)

find_vm_by_name(tr, ans, vm_name) ==
    IF connected(tr)
    THEN LET vms == get_all_vms(tr, ans) IN
         IF vms.kind # "return" THEN vms
         ELSE IF vms.value = None THEN Raise(PyError("TypeError"), vms.log)
              ELSE Return(FirstByName(vms.value.l, vm_name.s), vms.log)
    ELSE Raise(ESXiError(<<Enum("SSHNotConnected")>>), <<>>)

RECURSIVE FirstById(_, _)
FirstById(vms, vm_id) ==
    IF vms = <<>> THEN None
    ELSE IF Head(vms).id = vm_id THEN Head(vms)
         ELSE FirstById(Tail(vms), vm_id)

find_vm_by_id(tr, ans, vm_id) ==
    IF connected(tr)
    THEN LET vms == get_all_vms(tr, ans) IN
         IF vms.kind # "return" THEN vms
         ELSE IF vms.value = None THEN Raise(PyError("TypeError"), vms.log)
              ELSE Return(FirstById(vms.value.l, vm_id.n), vms.log)
    ELSE Raise(ESXiError(<<Enum("SSHNotConnected")>>), <<>>)

(***************************************************************************)
(* The remote host: what exec_command can answer.  An answer is the exit   *)
(* status with the lines of stdout and stderr, or exec_command raising     *)
(* because the session broke after connected() was read.                   *)
(***************************************************************************)
Answer(exit, out, err) == [exc |-> FALSE, exit |-> exit, out |-> out, err |-> err]
Broken == [exc |-> TRUE, exit |-> 0, out |-> <<>>, err |-> <<>>]

SeqsUpTo(S, n) == UNION {[1..k -> S] : k \in 0..n}

MaintenanceLines ==
    {"Enabled\n", "Disabled\n", "Maintenance Mode: Enabled\n", "Connection warning\n"}

MaintenanceAnswers ==
    {Answer(0, out, <<>>) : out \in SeqsUpTo(MaintenanceLines, MaxLines)}
        \cup {Answer(1, <<>>, <<"Connection failed\n">>), Broken}

PlainAnswers ==
    {Answer(0, <<>>, <<>>), Answer(1, <<>>, <<"Operation failed\n">>), Broken}

PowerLines ==
    {"Retrieved runtime info\n", "Powered on\n", "Powered off\n", "Suspended\n"}

PowerStateAnswers ==
    {Answer(0, out, <<>>) : out \in SeqsUpTo(PowerLines, MaxLines)}
        \cup {Answer(1, <<>>, <<"Unable to find a VM\n">>), Broken}

\* the answers to the state queries made around a power command
StateAnswers ==
    { Answer(0, <<"Retrieved runtime info\n", "Powered on\n">>, <<>>),
      Answer(0, <<"Retrieved runtime info\n", "Powered off\n">>, <<>>),
      Answer(0, <<"Retrieved runtime info\n", "Suspended\n">>, <<>>),
      Answer(0, <<"Retrieved runtime info\n">>, <<>>),
      Answer(1, <<>>, <<"Unable to find a VM\n">>),
      Broken }

\* the answers to the state queries of get_running_vms
RunningAnswers ==
    { Answer(0, <<"Retrieved runtime info\n", "Powered on\n">>, <<>>),
      Answer(0, <<"Retrieved runtime info\n", "Powered off\n">>, <<>>),
      Answer(1, <<>>, <<"Unable to find a VM\n">>),
      Broken }

\* the answers to a power command
CommandAnswers ==
    { Answer(0, <<"Powering on VM:\n">>, <<>>),
      Answer(1, <<>>, <<>>),
      Answer(1, <<>>, <<"Power on failed\n">>),
      Answer(1, <<>>, <<"vim.fault.InvalidState: The operation is not allowed\n">>),
      Answer(1, <<>>, <<"vim.fault\n">>),
      Broken }

HeaderRow == "Vmid:Name:File:Guest:OS:Version\n"
WebVMRow == "10:WebVM:[datastore1]:WebVM/WebVM.vmx:otherGuest:vmx-11\n"
LowerVMRow == "11:webvm:[datastore2]:webvm/webvm.vmx:debian10Guest:vmx-13\n"
\* what the awk filter prints for an annotation line "See also [wiki]"
AnnotationRow == "See:also:[wiki]:::\n"

ListingRows == {HeaderRow, WebVMRow, LowerVMRow, AnnotationRow}

ListingAnswers ==
    {Answer(0, out, <<>>) : out \in SeqsUpTo(ListingRows, MaxRows)}
        \cup {Answer(1, <<>>, <<"Connection failed\n">>),
              Answer(1, <<WebVMRow>>, <<"Connection failed\n">>), Broken}

ShutdownArguments ==
    { Str("poweroff"), Str("reboot"), Str("REBOOT"), Str("PowerOff"),
      Str("BADVALUE"), Str(""), IntV(0), None }

NameArguments == {Str("WebVM"), Str("webvm"), Str("NoSuchVM")}
IdArguments == {IntV(10), IntV(11), IntV(12)}

(***************************************************************************)
(* The caller.                                                             *)
(***************************************************************************)
NoCall == [op |-> "none", arg |-> None, self |-> None, transport |-> "none"]
NoOutcome ==
    [kind |-> "none", value |-> None, code |-> 0, message |-> "", reason |-> None]

Outcome(res) ==
    [kind |-> res.kind, value |-> res.value, code |-> res.code,
     message |-> res.message, reason |-> res.reason]

\* ESXiHost.__init__: the SSHClient has no transport yet
Init ==
    /\ transport = "none"
    /\ vm = None
    /\ call = NoCall
    /\ remote = <<>>
    /\ outcome = NoOutcome
    /\ log = <<>>

\* the caller has a call's result and is about to make another
Idle == call.op = "none"

\* one call of a method that ends as res, the remote answering by script
Called(op, arg, self, script, res) ==
    /\ call' = [op |-> op, arg |-> arg, self |-> self, transport |-> transport]
    /\ remote' = script
    /\ outcome' = Outcome(res)
    /\ log' = res.log
    /\ transport' = IF res.kind = "SSHException" THEN "dead" ELSE transport

\* the caller is done with the result of the call
NextCall ==
    /\ ~Idle
    /\ call' = NoCall
    /\ remote' = <<>>
    /\ outcome' = NoOutcome
    /\ log' = <<>>
    /\ UNCHANGED <<transport, vm>>

\* connect(): the session opens, or paramiko raises before a transport is
\* made ("refused") or after one is made ("rejected")
Connect ==
    /\ Idle
    /\ \E result \in {"ok", "refused", "rejected"} :
        /\ call' = [op |-> "connect", arg |-> None, self |-> None, transport |-> transport]
        /\ remote' = <<>>
        /\ log' = <<>>
        /\ outcome' = IF result = "ok" THEN Outcome(Return(None, <<>>))
                      ELSE Outcome(Raise(PyError("SSHException"), <<>>))
        /\ transport' = CASE result = "ok" -> "alive"
                          [] result = "refused" -> transport
                          [] result = "rejected" -> "dead"
        /\ UNCHANGED vm

\* disconnect(): ssh_session.close()
Disconnect ==
    /\ Idle
    /\ call' = [op |-> "disconnect", arg |-> None, self |-> None, transport |-> transport]
    /\ remote' = <<>>
    /\ log' = <<>>
    /\ outcome' = Outcome(Return(None, <<>>))
    /\ transport' = "none"
    /\ UNCHANGED vm

\* the transport stops being alive between two calls
TransportFailure ==
    /\ Idle
    /\ transport = "alive"
    /\ transport' = "dead"
    /\ UNCHANGED <<vm, call, remote, outcome, log>>

GetMaintenanceMode ==
    /\ Idle
    /\ \E a \in MaintenanceAnswers :
          /\ Called("get_maintenance_mode", None, None, <<a>>,
                    get_maintenance_mode(transport, <<a>>))
          /\ UNCHANGED vm

EnterMaintenanceMode ==
    /\ Idle
    /\ \E a \in MaintenanceAnswers, b \in PlainAnswers :
          /\ Called("enter_maintenance_mode", None, None, <<a, b>>,
                    enter_maintenance_mode(transport, <<a, b>>))
          /\ UNCHANGED vm

ExitMaintenanceMode ==
    /\ Idle
    /\ \E a \in MaintenanceAnswers, b \in PlainAnswers :
          /\ Called("exit_maintenance_mode", None, None, <<a, b>>,
                    exit_maintenance_mode(transport, <<a, b>>))
          /\ UNCHANGED vm

Shutdown ==
    /\ Idle
    /\ \E command \in ShutdownArguments, a \in PlainAnswers :
          /\ Called("shutdown", command, None, <<a>>, shutdown(transport, <<a>>, command))
          /\ UNCHANGED vm

\* the objects of the list res returns, if it returns one
Listed(res) ==
    IF res.kind = "return" /\ res.value # None
    THEN {res.value.l[i] : i \in 1..Len(res.value.l)}
    ELSE {}

\* the caller keeps the object it had or takes one of the listing
GetAllVms ==
    /\ Idle
    /\ \E a \in ListingAnswers :
          LET res == get_all_vms(transport, <<a>>) IN
          /\ Called("get_all_vms", None, None, <<a>>, res)
          /\ vm' \in {vm} \cup Listed(res)

\* the rows of a listing answer that are not the header
VmRows(a) == Len(SelectSeq(a.out, LAMBDA row : Lower(Split(row, ":")[1]) # "vmid"))

GetRunningVms ==
    /\ Idle
    /\ \E a \in ListingAnswers :
          \E states \in [1..VmRows(a) -> RunningAnswers] :
              /\ Called("get_running_vms", None, None, <<a>> \o states,
                        get_running_vms(transport, <<a>> \o states))
              /\ UNCHANGED vm

FindVmByName ==
    /\ Idle
    /\ \E vm_name \in NameArguments, a \in ListingAnswers :
          /\ Called("find_vm_by_name", vm_name, None, <<a>>,
                    find_vm_by_name(transport, <<a>>, vm_name))
          /\ UNCHANGED vm

FindVmById ==
    /\ Idle
    /\ \E vm_id \in IdArguments, a \in ListingAnswers :
          /\ Called("find_vm_by_id", vm_id, None, <<a>>,
                    find_vm_by_id(transport, <<a>>, vm_id))
          /\ UNCHANGED vm

PowerGetstate ==
    /\ Idle
    /\ vm # None
    /\ \E a \in PowerStateAnswers :
          /\ Called("power_getstate", None, vm, <<a>>,
                    ssh_check_wrapper("power_getstate", vm, transport, <<a>>))
          /\ UNCHANGED vm

\* the methods that query the state, run their command and query again
CheckedPowerMethods ==
    {"power_hibernate", "power_on", "power_off", "power_shutdown", "power_suspend"}

\* the methods that run their command and then query the state
UncheckedPowerMethods == {"power_reboot", "power_reset"}

PowerChecked ==
    /\ Idle
    /\ vm # None
    /\ \E name \in CheckedPowerMethods :
          \E a \in StateAnswers, b \in CommandAnswers, c \in StateAnswers :
              /\ Called(name, None, vm, <<a, b, c>>,
                        ssh_check_wrapper(name, vm, transport, <<a, b, c>>))
              /\ UNCHANGED vm

PowerUnchecked ==
    /\ Idle
    /\ vm # None
    /\ \E name \in UncheckedPowerMethods :
          \E b \in CommandAnswers, c \in StateAnswers :
              /\ Called(name, None, vm, <<b, c>>,
                        ssh_check_wrapper(name, vm, transport, <<b, c>>))
              /\ UNCHANGED vm

PowerSuspendresume ==
    /\ Idle
    /\ vm # None
    /\ Called("power_suspendresume", None, vm, <<>>,
              ssh_check_wrapper("power_suspendresume", vm, transport, <<>>))
    /\ UNCHANGED vm

Next ==
    \/ NextCall
    \/ Connect
    \/ Disconnect
    \/ TransportFailure
    \/ GetMaintenanceMode
    \/ EnterMaintenanceMode
    \/ ExitMaintenanceMode
    \/ Shutdown
    \/ GetAllVms
    \/ GetRunningVms
    \/ FindVmByName
    \/ FindVmById
    \/ PowerGetstate
    \/ PowerChecked
    \/ PowerUnchecked
    \/ PowerSuspendresume

Spec == Init /\ [][Next]_vars

TypeOK ==
    /\ transport \in {"none", "alive", "dead"}
    /\ outcome.kind \in {"none", "return", "ESXiError", "SSHException", "AttributeError",
                         "TypeError", "ValueError", "IndexError"}

(***************************************************************************)
(* Properties.  They speak of the state right after a call: call names the *)
(* method and the transport it found, remote the remote's answers, outcome *)
(* and log what the call did.                                              *)
(***************************************************************************)
HostMethods ==
    {"get_maintenance_mode", "enter_maintenance_mode", "exit_maintenance_mode",
     "shutdown", "get_all_vms", "get_running_vms", "find_vm_by_name", "find_vm_by_id"}

PowerMethods ==
    CheckedPowerMethods \cup UncheckedPowerMethods
        \cup {"power_getstate", "power_suspendresume"}

\* the session was live when the call began: a transport existed and was alive
LiveAtEntry == call.transport = "alive"

RaisedCode(code) == outcome.kind = "ESXiError" /\ outcome.code = code

\* C1: a host method called while connected() is false raises ESXiError
\* with code -1000 (SSHNotConnected) and submits no command.
C1_NotConnectedHost ==
    (call.op \in HostMethods /\ ~LiveAtEntry) => (RaisedCode(-1000) /\ log = <<>>)

\* a host method found a transport that had failed after earlier listings
C1_Witness ==
    /\ call.op = "get_running_vms"
    /\ call.transport = "dead"
    /\ vm # None
    /\ RaisedCode(-1000)
    /\ log = <<>>

\* C2: every power method first checks connected() on the owning host: it
\* raises ESXiError -1000 before any command when the check is false, and
\* runs the method body when it is true (every body but that of
\* power_suspendresume starts by submitting a command).
C2_PowerMethodsGuarded ==
    call.op \in PowerMethods =>
        IF LiveAtEntry
        THEN IF call.op = "power_suspendresume"
             THEN outcome.kind = "return"
             ELSE log # <<>>
        ELSE RaisedCode(-1000) /\ log = <<>>

(***************************************************************************)
(* What the remote's answers say, read off the lines themselves.           *)
(***************************************************************************)
Answered(a) == ~a.exc /\ a.exit = 0
Failed(a) == ~a.exc /\ a.exit # 0

\* the first line of out that is in S, or "" when there is none
FirstIn(out, S) ==
    IF \E i \in 1..Len(out) : out[i] \in S
    THEN out[CHOOSE i \in 1..Len(out) :
                out[i] \in S /\ \A j \in 1..(i - 1) : out[j] \notin S]
    ELSE ""

\* the power state a state answer reports
ReportedState(a) ==
    LET line == FirstIn(a.out, {"Powered on\n", "Powered off\n", "Suspended\n"}) IN
    CASE line = "Powered on\n" -> "on"
      [] line = "Powered off\n" -> "off"
      [] line = "Suspended\n" -> "suspended"
      [] OTHER -> "unknown"

TargetState ==
    [ power_on |-> "on", power_off |-> "off", power_hibernate |-> "suspended",
      power_shutdown |-> "off", power_suspend |-> "suspended" ]

PowerCommand ==
    [ power_hibernate |-> "vim-cmd vmsvc/power.hibernate ",
      power_on |-> "vim-cmd vmsvc/power.on ",
      power_off |-> "vim-cmd vmsvc/power.off ",
      power_reboot |-> "vim-cmd vmsvc/power.reboot ",
      power_reset |-> "vim-cmd vmsvc/power.reset ",
      power_shutdown |-> "vim-cmd vmsvc/power.shutdown ",
      power_suspend |-> "vim-cmd vmsvc/power.suspend " ]

PowerFailureCode ==
    [ power_hibernate |-> -1050, power_on |-> -1060, power_off |-> -1070,
      power_reboot |-> -1080, power_reset |-> -1090, power_shutdown |-> -1100,
      power_suspend |-> -1110 ]

Submitted(prefix) ==
    \E i \in 1..Len(log) : SubSeq(log[i], 1, Len(prefix)) = prefix

\* C3: power_on, power_off, power_hibernate, power_shutdown and power_suspend
\* on a connected host, when the state query at the start of the call reports
\* the target state, return normally without submitting the power command.
C3_TargetStateNoOp ==
    ( /\ call.op \in CheckedPowerMethods
      /\ LiveAtEntry
      /\ Answered(remote[1])
      /\ ReportedState(remote[1]) = TargetState[call.op] )
    => ( /\ outcome.kind = "return"
         /\ ~Submitted(PowerCommand[call.op]) )

\* the remote answers the power command of this call with a nonzero exit
\* status; for the methods that query first, the query reports another
\* state than the target
CommandAnswer == IF call.op \in CheckedPowerMethods THEN remote[2] ELSE remote[1]
RequeryAnswer == IF call.op \in CheckedPowerMethods THEN remote[3] ELSE remote[2]

CommandFails ==
    /\ call.op \in CheckedPowerMethods \cup UncheckedPowerMethods
    /\ LiveAtEntry
    /\ call.op \in CheckedPowerMethods =>
          (Answered(remote[1]) /\ ReportedState(remote[1]) # TargetState[call.op])
    /\ Failed(CommandAnswer)

HasFaultMarker(err) == err # <<>> /\ Contains(err[1], "vim.fault")

\* C4: when the command of a power method exits nonzero, the call raises
\* an ESXiError with the method's own code (-1050 hibernate, -1060 on,
\* -1070 off, -1080 reboot, -1090 reset, -1100 shutdown, -1110 suspend),
\* with or without a vim.fault marker in the first stderr line and with no
\* stderr lines at all; without a marker the reason is None.
C4_OwnFailureCode ==
    CommandFails =>
        /\ RaisedCode(PowerFailureCode[call.op])
        /\ ~HasFaultMarker(CommandAnswer.err) => outcome.reason = None

CapitalizedState ==
    [on |-> "On", off |-> "Off", suspended |-> "Suspended", unknown |-> "Unknown"]

\* C5: when the command exits nonzero and the first stderr line contains
\* "vim.fault.InvalidState", the reason of the raised error is
\* "(InvalidState) The attempted operation cannot be performed in the
\* current state. (<State>)", <State> being the capitalized result of the
\* state query made after the failed command, whatever that result is.
C5_FaultReason ==
    ( /\ CommandFails
      /\ CommandAnswer.err = <<"vim.fault.InvalidState: The operation is not allowed\n">>
      /\ Answered(RequeryAnswer) )
    => ( /\ outcome.kind = "ESXiError"
         /\ outcome.reason =
              Str("(InvalidState) The attempted operation cannot be performed "
                  \o "in the current state. ("
                  \o CapitalizedState[ReportedState(RequeryAnswer)] \o ")") )

\* the shutdown argument is not a string equal, whatever the case of its
\* letters, to "poweroff" or "reboot"
InvalidArgument ==
    call.arg \notin {Str(w) : w \in {"poweroff", "reboot", "REBOOT", "PowerOff"}}

\* C6 as stated: for every invalid argument shutdown raises ESXiError -1020
\* and executes no command, whether or not the session is connected.
C6_InvalidCommandAlways ==
    (call.op = "shutdown" /\ InvalidArgument) => (RaisedCode(-1020) /\ log = <<>>)

\* C6 amended: for every invalid argument shutdown executes no command; it
\* raises ESXiError -1020 when the session is connected and ESXiError -1000
\* (SSHNotConnected) when it is not.
C6_InvalidCommandConnected ==
    (call.op = "shutdown" /\ InvalidArgument) =>
        /\ log = <<>>
        /\ IF LiveAtEntry THEN RaisedCode(-1020) ELSE RaisedCode(-1000)

\* shutdown("BADVALUE") on a live session
C6_Witness ==
    /\ call.op = "shutdown"
    /\ call.arg = Str("BADVALUE")
    /\ LiveAtEntry
    /\ RaisedCode(-1020)
    /\ log = <<>>

\* C7: on a zero exit code power_getstate returns what the first matching
\* stdout line says ("Powered on" -> on, "Powered off" -> off, a line with
\* "Suspended" -> suspended) and None when no line matches or stdout is
\* empty; on a nonzero exit code it raises ESXiError -1040.
C7_PowerStateParsed ==
    (call.op = "power_getstate" /\ LiveAtEntry /\ ~remote[1].exc) =>
        IF remote[1].exit = 0
        THEN /\ outcome.kind = "return"
             /\ outcome.value = IF ReportedState(remote[1]) = "unknown" THEN None
                                ELSE Str(ReportedState(remote[1]))
        ELSE RaisedCode(-1040)

\* the leading space-delimited token, trimmed, of the first line of out
\* that contains "Enabled" or "Disabled"; None when there is no such line
ReportedMode(out) ==
    LET line == FirstIn(out, {"Enabled\n", "Disabled\n", "Maintenance Mode: Enabled\n"}) IN
    CASE line = "Enabled\n" -> Str("Enabled")
      [] line = "Disabled\n" -> Str("Disabled")
      [] line = "Maintenance Mode: Enabled\n" -> Str("Maintenance")
      [] OTHER -> None

\* C8 as stated: every value get_maintenance_mode returns is "Enabled" or
\* "Disabled", for any stdout of a zero-exit query; a nonzero exit raises
\* ESXiError -1012.
C8_EnabledOrDisabled ==
    (call.op = "get_maintenance_mode" /\ LiveAtEntry /\ ~remote[1].exc) =>
        IF remote[1].exit = 0
        THEN outcome.kind = "return" /\ outcome.value \in {Str("Enabled"), Str("Disabled")}
        ELSE RaisedCode(-1012)

\* C8 amended: on a zero exit get_maintenance_mode returns the leading
\* space-delimited token, trimmed, of the first stdout line that contains
\* "Enabled" or "Disabled" ("Enabled" for "Enabled\n", "Maintenance" for
\* "Maintenance Mode: Enabled\n"), and None when no line contains either
\* word; a nonzero exit raises ESXiError -1012.
C8_LeadingToken ==
    (call.op = "get_maintenance_mode" /\ LiveAtEntry /\ ~remote[1].exc) =>
        IF remote[1].exit = 0
        THEN outcome.kind = "return" /\ outcome.value = ReportedMode(remote[1].out)
        ELSE RaisedCode(-1012)

\* the query printed a line without either word and then "Disabled"
C8_Witness ==
    /\ call.op = "get_maintenance_mode"
    /\ LiveAtEntry
    /\ remote[1] = Answer(0, <<"Connection warning\n", "Disabled\n">>, <<>>)
    /\ outcome.kind = "return"
    /\ outcome.value = Str("Disabled")

MaintenanceQuery == "esxcli system maintenanceMode get"

MaintenanceChange ==
    [ enter_maintenance_mode |->
        [word |-> "Enabled", cmd |-> "vim-cmd hostsvc/maintenance_mode_enter",
         code |-> -1010],
      exit_maintenance_mode |->
        [word |-> "Disabled", cmd |-> "vim-cmd hostsvc/maintenance_mode_exit",
         code |-> -1011] ]

InLog(cmd) == \E i \in 1..Len(log) : log[i] = cmd

\* C9: enter_maintenance_mode submits maintenance_mode_enter only after a
\* query of the same call succeeded and returned something other than
\* "Enabled"; when the query returns "Enabled" the call returns with no
\* further command; when the query exits nonzero ESXiError -1012 propagates
\* and the command is not submitted; a nonzero exit of the command raises
\* ESXiError -1010.  exit_maintenance_mode likewise with "Disabled",
\* maintenance_mode_exit and -1011.
C9_MaintenanceChange ==
    (call.op \in DOMAIN MaintenanceChange /\ LiveAtEntry) =>
        LET m == MaintenanceChange[call.op] IN
        /\ InLog(m.cmd) =>
              /\ Answered(remote[1])
              /\ ReportedMode(remote[1].out) # Str(m.word)
              /\ log = <<MaintenanceQuery, m.cmd>>
        /\ (Answered(remote[1]) /\ ReportedMode(remote[1].out) = Str(m.word)) =>
              (outcome.kind = "return" /\ log = <<MaintenanceQuery>>)
        /\ Failed(remote[1]) => (RaisedCode(-1012) /\ log = <<MaintenanceQuery>>)
        /\ (InLog(m.cmd) /\ Failed(remote[2])) => RaisedCode(m.code)

\* enter_maintenance_mode found the host in "Disabled" and its command failed
C9_Witness ==
    /\ call.op = "enter_maintenance_mode"
    /\ LiveAtEntry
    /\ remote[1] = Answer(0, <<"Disabled\n">>, <<>>)
    /\ Failed(remote[2])
    /\ log = <<MaintenanceQuery, "vim-cmd hostsvc/maintenance_mode_enter">>
    /\ RaisedCode(-1010)

\* the id and name each listing row stands for
RowVm ==
    [row \in {WebVMRow, LowerVMRow} |->
        IF row = WebVMRow THEN <<10, "WebVM">> ELSE <<11, "webvm">>]

\* the rows of out that are not a header
ResourceRows(out) == SelectSeq(out, LAMBDA row : row # HeaderRow)

\* every row that is not a header has an integer first field
WellFormed(out) == \A i \in 1..Len(out) : out[i] # AnnotationRow

ExpectedVms(out) == [i \in 1..Len(ResourceRows(out)) |-> RowVm[ResourceRows(out)[i]]]

ReturnedVms == [i \in 1..Len(outcome.value.l) |->
                    <<outcome.value.l[i].id, outcome.value.l[i].name>>]

\* C10 as stated: on a zero exit get_all_vms returns one handle per row that
\* is not a header, in order, with the row's id and name; None when there
\* are no resource rows; a nonzero exit raises ESXiError -1030 and no
\* handle is made.
C10_ListingNoRowsNone ==
    ( /\ call.op = "get_all_vms"
      /\ LiveAtEntry
      /\ ~remote[1].exc
      /\ WellFormed(remote[1].out) )
    => IF remote[1].exit = 0
       THEN /\ outcome.kind = "return"
            /\ IF ResourceRows(remote[1].out) = <<>>
               THEN outcome.value = None
               ELSE /\ outcome.value.t = "list"
                    /\ ReturnedVms = ExpectedVms(remote[1].out)
       ELSE RaisedCode(-1030) /\ outcome.value = None

\* C10 amended: as stated, except that the result is None only when stdout
\* has no line at all; when stdout has lines and all are header rows the
\* result is an empty list.
C10_ListingNoLinesNone ==
    ( /\ call.op = "get_all_vms"
      /\ LiveAtEntry
      /\ ~remote[1].exc
      /\ WellFormed(remote[1].out) )
    => IF remote[1].exit = 0
       THEN /\ outcome.kind = "return"
            /\ IF remote[1].out = <<>>
               THEN outcome.value = None
               ELSE /\ outcome.value.t = "list"
                    /\ ReturnedVms = ExpectedVms(remote[1].out)
       ELSE RaisedCode(-1030) /\ outcome.value = None

\* a header row followed by the row of WebVM gave one handle
C10_Witness ==
    /\ call.op = "get_all_vms"
    /\ LiveAtEntry
    /\ remote[1] = Answer(0, <<HeaderRow, WebVMRow>>, <<>>)
    /\ outcome.kind = "return"
    /\ outcome.value.t = "list"
    /\ ReturnedVms = << <<10, "WebVM">> >>

\* whether the listing row stands for a vm the argument of the call names:
\* by name whatever the case of the letters, or by id
RowMatches(row) ==
    IF call.op = "find_vm_by_name"
    THEN call.arg \in {Str("WebVM"), Str("webvm")}
    ELSE RowVm[row][1] = call.arg.n

\* the resource rows of out that match, in order
MatchingRows(out) == SelectSeq(ResourceRows(out), RowMatches)

StateQuery == "vim-cmd vmsvc/power.getstate "

IsStateQuery(cmd) ==
    /\ Len(cmd) >= Len(StateQuery)
    /\ SubSeq(cmd, 1, Len(StateQuery)) = StateQuery

\* C12: power_reboot and power_reset on a connected host submit, as their
\* first command and whatever the power state of the vm, power.reboot and
\* power.reset for the id of the handle; no state query precedes it and the
\* call never returns without it; a state query is submitted only after
\* that command exited nonzero with a vim.fault marker in stderr.
C12_RebootResetUnconditional ==
    ( /\ call.op \in UncheckedPowerMethods
      /\ LiveAtEntry )
    => /\ log # <<>>
       /\ log[1] = PowerCommand[call.op] \o IntToStr(call.self.id)
       /\ \A i \in 1..Len(log) :
             IsStateQuery(log[i])
                => /\ i > 1
                   /\ Failed(remote[1])
                   /\ HasFaultMarker(remote[1].err)

\* the vms the listing answer of a get_running_vms call lists, as rows
RunningRows == ResourceRows(remote[1].out)

\* the answer to the state query of the i-th listed vm
QueryAnswer(i) == remote[1 + i]

QueriesAnswered == \A i \in 1..Len(RunningRows) : Answered(QueryAnswer(i))

\* the positions of the listed vms whose state query reports "on"
RunningPositions ==
    SelectSeq([i \in 1..Len(RunningRows) |-> i],
              LAMBDA i : ReportedState(QueryAnswer(i)) = "on")

ExpectedRunning ==
    [k \in 1..Len(RunningPositions) |-> RowVm[RunningRows[RunningPositions[k]]]]

ExpectedRunningLog ==
    <<GetAllVmsCommand>> \o
    [i \in 1..Len(RunningRows) |-> StateQuery \o IntToStr(RowVm[RunningRows[i]][1])]

\* C13: get_running_vms on a connected host submits the listing command
\* once and then one state query per listed handle, in listing order, and
\* returns exactly the handles whose state is "on", in listing order; it
\* returns None when the listing returned None; when the listing or a
\* state query fails the error propagates and no list is returned.
C13_RunningVms ==
    ( /\ call.op = "get_running_vms"
      /\ LiveAtEntry
      /\ WellFormed(remote[1].out) )
    => /\ log # <<>> /\ log[1] = GetAllVmsCommand
       /\ (Answered(remote[1]) /\ remote[1].out = <<>>)
             => /\ outcome.kind = "return"
                /\ outcome.value = None
                /\ log = <<GetAllVmsCommand>>
       /\ (Answered(remote[1]) /\ remote[1].out # <<>> /\ QueriesAnswered)
             => /\ outcome.kind = "return"
                /\ outcome.value.t = "list"
                /\ ReturnedVms = ExpectedRunning
                /\ log = ExpectedRunningLog
       /\ (~Answered(remote[1]) \/ ~QueriesAnswered)
             => outcome.kind # "return"

\* C14: for every argument the validation of shutdown accepts, also in
\* upper or mixed case such as "REBOOT", a connected host is sent exactly
\* one command, "esxcli system shutdown poweroff" or "esxcli system shutdown
\* reboot" with the word in lower case, and no maintenance mode query.
C14_ShutdownLowercaseWord ==
    ( /\ call.op = "shutdown"
      /\ LiveAtEntry
      /\ ~InvalidArgument )
    => /\ log \in { <<"esxcli system shutdown poweroff">>,
                    <<"esxcli system shutdown reboot">> }
       /\ call.arg \in {Str("poweroff"), Str("PowerOff")}
             => log = <<"esxcli system shutdown poweroff">>
       /\ call.arg \in {Str("reboot"), Str("REBOOT")}
             => log = <<"esxcli system shutdown reboot">>

====
